---- MODULE Spec2Model ----
(***************************************************************************)
(* Model of src/battery_gui.py: the serial Bus (Bus.send_cmd), the device  *)
(* at the other end of the serial line, and the GUI callbacks that poll    *)
(* the battery packs.                                                      *)
(*                                                                         *)
(* A Python string is a sequence of one-character strings, and so is a     *)
(* sequence of bytes on the serial line.                                   *)
(***************************************************************************)
EXTENDS Integers, Sequences, FiniteSets, TLC

(***************************************************************************)
(* Bounds of the model.                                                    *)
(***************************************************************************)
NumLat == 3        \* number of sampled latency values besides 0, 5 and 65535
NumTokLists == 2   \* number of sampled lists of ten readings
MaxLate == 2       \* at most this many bytes of a reply arrive after the drain
MaxDepth == 2      \* callbacks nested in one another (dispatched from plt.pause)
NumRelayPatterns == 3  \* number of sampled settings of the relay checkboxes besides all on

(***************************************************************************)
(* Locals of Bus.send_cmd.                                                 *)
(***************************************************************************)
hex_len == 4
hex_base == 16
ques_len == 2
etx_len == 3
max_bat_num == 10

(***************************************************************************)
(* Characters.                                                             *)
(***************************************************************************)
HexDigitChars == <<"0","1","2","3","4","5","6","7","8","9","a","b","c","d","e","f">>
UpperHexChars == <<"A","B","C","D","E","F">>
Whitespace == {" ", "\t", "\n", "\r"}
\* a byte >= 0x80 standing alone: bytes.decode('utf-8') raises on it
BadByte == "<80>"
ETX == <<"E","T","X">>

bat1 == <<"#","b","a","t","1">>
bat2 == <<"#","b","a","t","2">>
bat3 == <<"#","b","a","t","3">>
bat4 == <<"#","b","a","t","4">>
qv == <<"?","v">>
qi == <<"?","i">>
qp == <<"?","p">>
qk == <<"?","k">>
qq == <<"?","q">>
qc == <<"?","c">>
qai == <<"?","a","i">>

\* Bus.__init__, line 37: the set built from ['?v','?i','?p','?k','q','?c']
BusQuesSet == {qv, qi, qp, qk, <<"q">>, qc}
\* Bus.__init__, line 38
BusPackSet == {bat1, bat2, bat3, bat4}

(***************************************************************************)
(* Python semantics used by send_cmd.                                      *)
(***************************************************************************)
\* a slice bound i of a sequence of length n, as Python normalises it
PyIdx(i, n) == IF i < 0 THEN (IF i + n < 0 THEN 0 ELSE i + n)
                        ELSE (IF i > n THEN n ELSE i)

\* s[a:b]
PySlice(s, a, b) ==
    LET lo == PyIdx(a, Len(s))
        hi == PyIdx(b, Len(s))
    IN  IF lo >= hi THEN <<>> ELSE SubSeq(s, lo + 1, hi)

IsHexDigit(c) == (\E i \in 1..16 : HexDigitChars[i] = c) \/ (\E i \in 1..6 : UpperHexChars[i] = c)

HexVal(c) == IF \E i \in 1..16 : HexDigitChars[i] = c
             THEN (CHOOSE i \in 1..16 : HexDigitChars[i] = c) - 1
             ELSE (CHOOSE i \in 1..6 : UpperHexChars[i] = c) + 9

RECURSIVE LStrip(_)
LStrip(s) == IF s # <<>> /\ Head(s) \in Whitespace THEN LStrip(Tail(s)) ELSE s

RECURSIVE RStrip(_)
RStrip(s) == IF s # <<>> /\ s[Len(s)] \in Whitespace
             THEN RStrip(SubSeq(s, 1, Len(s) - 1)) ELSE s

\* the digit part of an integer literal: digits, single underscores between them
DigitsOK(d) ==
    /\ d # <<>>
    /\ IsHexDigit(d[1])
    /\ \A i \in 1..Len(d) :
          \/ IsHexDigit(d[i])
          \/ (d[i] = "_" /\ i < Len(d) /\ IsHexDigit(d[i + 1]))

RECURSIVE DigitsValue(_, _)
DigitsValue(d, acc) ==
    IF d = <<>> THEN acc
    ELSE IF Head(d) = "_" THEN DigitsValue(Tail(d), acc)
    ELSE DigitsValue(Tail(d), acc * hex_base + HexVal(Head(d)))

\* int(s, 16): ok = FALSE stands for ValueError
PyInt(s) ==
    LET t == RStrip(LStrip(s))
        neg == t # <<>> /\ t[1] = "-"
        u == IF t # <<>> /\ t[1] \in {"+", "-"} THEN Tail(t) ELSE t
        pre == Len(u) >= 2 /\ u[1] = "0" /\ u[2] \in {"x", "X"}
        v == IF pre THEN SubSeq(u, 3, Len(u)) ELSE u
        w == IF pre /\ v # <<>> /\ v[1] = "_" THEN Tail(v) ELSE v
    IN  IF DigitsOK(w)
        THEN [ok |-> TRUE, val |-> IF neg THEN 0 - DigitsValue(w, 0) ELSE DigitsValue(w, 0)]
        ELSE [ok |-> FALSE, val |-> 0]

\* '{0:x}'.format(n)
RECURSIVE ToHex(_)
ToHex(n) == IF n < 0 THEN <<"-">> \o ToHex(0 - n)
            ELSE IF n < hex_base THEN <<HexDigitChars[n + 1]>>
            ELSE ToHex(n \div hex_base) \o <<HexDigitChars[(n % hex_base) + 1]>>

\* bytes.decode('utf-8') of the bytes read one at a time, the
\* UnicodeDecodeError of an undecodable byte swallowed (lines 60-65)
ReadAll(buf) == SelectSeq(buf, LAMBDA b : b # BadByte)


(***************************************************************************)
(* The device at the other end of the serial line.  A reply is described   *)
(* by a record r: layout "silent" (no byte), "echo" (the command only),    *)
(* "code" (the command, one character, the latency and r.n readings, each  *)
(* of the n+1 fields followed by one separator, then ETX) or "spec" (the   *)
(* command, the latency, r.n readings each followed by one separator,      *)
(* then ETX); when r.pos > 0 the byte at r.pos is replaced by r.junk.      *)
(***************************************************************************)
Hex4(n) == << HexDigitChars[((n \div 4096) % 16) + 1], HexDigitChars[((n \div 256) % 16) + 1],
              HexDigitChars[((n \div 16) % 16) + 1], HexDigitChars[(n % 16) + 1] >>

\* sampled inputs
Latencies == {0, 5, 65535} \cup {(i * 4660) % 65536 : i \in 1..NumLat}
ExampleToks == [k \in 1..max_bat_num |->
                  IF k = 1 THEN <<"0","0","c","8">>
                  ELSE IF k = 2 THEN <<"0","1","9","0">> ELSE <<"0","0","0","0">>]
TokList(j) == [k \in 1..max_bat_num |-> Hex4((j * 7919 + k * 200) % 65536)]
\* the sampled lists of readings, by number
Toks(j) == IF j = 0 THEN ExampleToks ELSE TokList(j)
TokLists == 0..NumTokLists
Seps == {"_", " ", ","}
Leads == {" ", ":"}

RECURSIVE Groups(_, _, _)
Groups(toks, n, sep) == IF n = 0 THEN <<>>
                        ELSE Groups(toks, n - 1, sep) \o toks[n] \o <<sep>>

Layout(c, r) ==
    CASE r.layout = "silent" -> <<>>
      [] r.layout = "echo"   -> c
      [] r.layout = "code"   -> c \o <<r.lead>> \o Hex4(r.lat) \o <<r.sep>>
                                  \o Groups(Toks(r.toks), r.n, r.sep) \o ETX
      [] r.layout = "spec"   -> c \o Hex4(r.lat) \o Groups(Toks(r.toks), r.n, r.sep) \o ETX

Wire(c, r) == LET w == Layout(c, r)
              IN  IF r.pos = 0 THEN w ELSE [w EXCEPT ![r.pos] = r.junk]


Rep(layout, lat, toks, sep, lead, n, pos, junk) ==
    [layout |-> layout, lat |-> lat, toks |-> toks, sep |-> sep, lead |-> lead,
     n |-> n, pos |-> pos, junk |-> junk]
NoReply == Rep("silent", 0, 0, "_", " ", 0, 0, "~")
EchoReply == Rep("echo", 0, 0, "_", " ", 0, 0, "~")
GoodReply == Rep("code", 5, 0, "_", " ", max_bat_num, 0, "~")

\* every reply the device is taken to give to command c
RichReplies(c) ==
    {NoReply, EchoReply}
    \cup {Rep("code", l, t, s, d, max_bat_num, 0, "~") :
              l \in Latencies, t \in TokLists, s \in Seps, d \in Leads}
    \cup {Rep("spec", l, t, "_", " ", max_bat_num, 0, "~") : l \in Latencies, t \in TokLists}
    \cup {Rep("code", 5, t, s, " ", n, 0, "~") :
              t \in TokLists, s \in Seps, n \in 0..(max_bat_num - 1)}
    \cup {Rep("code", 5, 0, s, " ", max_bat_num, p, BadByte) :
              s \in Seps, p \in 1..Len(Layout(c, GoodReply))}
    \cup {Rep("code", 5, 0, "_", " ", max_bat_num, p, "~") : p \in 1..Len(c)}
    \cup {Rep("echo", 0, 0, "_", " ", 0, p, j) : p \in 1..Len(c), j \in {"~", "2", BadByte}}

\* the replies whose last bytes may arrive after the wait window
MayBeLate(r) == r.layout = "code" /\ r.pos = 0 /\ r.n = max_bat_num

(***************************************************************************)
(* State.                                                                  *)
(***************************************************************************)
VARIABLES
    bat_ques_set,   \* Bus.bat_ques_set
    bat_pack_set,   \* Bus.bat_pack_set
    pc,             \* position of the thread inside Bus.send_cmd, "idle" outside
    cmd,            \* send_cmd's argument
    msg,            \* send_cmd's local msg
    ret,            \* what send_cmd returns or raises
    inflight,       \* bytes the device has emitted that are not yet in the input buffer
    inbuf,          \* the serial input buffer (what inWaiting() counts)
    inflight_old,   \* ghost: how many bytes of inflight (its first) answer an earlier request
    inbuf_old,      \* ghost: how many bytes of inbuf (its first) answer an earlier request
    reply,          \* ghost: the reply the device chose for the request in progress
    frame_old,      \* ghost: bytes of an earlier request's reply in the drained frame
    outstanding     \* ghost: requests written whose drain has not ended

busVars == <<bat_ques_set, bat_pack_set, pc, cmd, msg, ret, inflight, inbuf,
             inflight_old, inbuf_old, reply, frame_old, outstanding>>
VARIABLES
    bus_connected,  \* GUI.bus_connected
    scan_time,      \* GUI.scan_time, 0 standing for None
    var_gra_b,      \* the packs whose var_gra_b<n> checkbox is 1
    var_gra_q,      \* the variables whose var_gra_<x> checkbox is 1
    var_trm_b,      \* the packs whose var_trm_b<n> checkbox is 1
    var_trm_q,      \* the variables whose var_trm_<x> checkbox is 1
    stack,          \* the callbacks in progress, the running one last
    exc,            \* the exception that ended the callback finished last, "" if none
    plugged         \* whether the serial adapter is still there

guiVars == <<bus_connected, scan_time, var_gra_b, var_gra_q, var_trm_b, var_trm_q,
             stack, exc, plugged>>
VARIABLES
    dict_bat_relay_var, \* GUI.dict_bat_relay_var: per pack, the values of its relay checkboxes
    raw,                \* a reading as int(element, hex_base) gives it
    recorded            \* what the polling caller appends to pack_data for it

restVars == <<dict_bat_relay_var, raw, recorded>>
vars == <<busVars, guiVars, restVars>>

NoRet == [tag |-> "unset", parsed |-> FALSE, latency |-> 0, bat_readings |-> <<>>]
NoneRet == [tag |-> "None", parsed |-> FALSE, latency |-> 0, bat_readings |-> <<>>]

(***************************************************************************)
(* Bus.send_cmd, lines 67-80: the value returned for command c when msg m  *)
(* was accumulated.  parsed tells whether the fields were sliced and the   *)
(* latency handed to int().  Each definition that a property below rests   *)
(* on is preceded by a faulty variant of it (echo_only_lt, ..._or,         *)
(* ..._at_echo, ..._from_0, ..._nonempty), under which the property fails. *)
(***************************************************************************)
echo_only_lt(c, m) == Len(m) < Len(c)
echo_only(c, m) == Len(m) = Len(c)

valid_ques_pack_or(c, m) ==
    \/ PySlice(m, Len(c) - ques_len, Len(c)) \in bat_ques_set
    \/ PySlice(m, 0, Len(c) - ques_len) \in bat_pack_set

valid_ques_pack(c, m) ==
    /\ PySlice(m, Len(c) - ques_len, Len(c)) \in bat_ques_set
    /\ PySlice(m, 0, Len(c) - ques_len) \in bat_pack_set

msg_body_at_echo(c, m) == PySlice(m, Len(c), 0 - etx_len)
msg_body(c, m) == PySlice(m, Len(c) + 1, 0 - etx_len)

bat_readings_from_0(c, m) ==
    [i \in 1..max_bat_num |->
        PySlice(msg_body(c, m), (i - 1) * (hex_len + 1), (i - 1) * (hex_len + 1) + hex_len)]

bat_readings_nonempty(c, m) ==
    SelectSeq([i \in 1..max_bat_num |->
                  PySlice(msg_body(c, m), i * (hex_len + 1), i * (hex_len + 1) + hex_len)],
              LAMBDA t : t # <<>>)

bat_readings_of(c, m) ==
    [i \in 1..max_bat_num |->
        PySlice(msg_body(c, m), i * (hex_len + 1), i * (hex_len + 1) + hex_len)]

latency_of(c, m) == PyInt(PySlice(msg_body(c, m), 0, hex_len))

send_cmd_result(c, m) ==
    IF echo_only(c, m) THEN NoneRet
    ELSE IF valid_ques_pack(c, m)
    THEN IF latency_of(c, m).ok
         THEN [tag |-> "tuple", parsed |-> TRUE, latency |-> latency_of(c, m).val,
               bat_readings |-> bat_readings_of(c, m)]
         ELSE [tag |-> "ValueError", parsed |-> TRUE, latency |-> 0, bat_readings |-> <<>>]
    ELSE NoneRet

(***************************************************************************)
(* Bus.__init__ and the steps of Bus.send_cmd.                             *)
(***************************************************************************)
\* GUI.__init__, lines 159-160 and the IntVar()s of init_gra_group, init_trm_group
GuiConstructed ==
    /\ bus_connected = FALSE
    /\ scan_time = 0
    /\ var_gra_b = {}
    /\ var_gra_q = {}
    /\ var_trm_b = {}
    /\ var_trm_q = {}
    /\ stack = <<>>
    /\ exc = ""

\* lines 182-187
dict_pack_to_nums(bat) ==
    CASE bat = bat1 -> 8 [] bat = bat2 -> 10 [] bat = bat3 -> 9 [] bat = bat4 -> 10

\* lines 1076-1084: one IntVar(value=1) per relay of each pack; nothing read
\* from a pack yet
RestConstructed ==
    /\ dict_bat_relay_var = [b \in BusPackSet |-> [k \in 1..dict_pack_to_nums(b) |-> 1]]
    /\ raw = 0
    /\ recorded = <<>>

\* lines 32-38: the Bus as constructed, nothing sent yet
BusConstructed ==
    /\ bat_ques_set = BusQuesSet
    /\ bat_pack_set = BusPackSet
    /\ pc = "idle"
    /\ cmd = <<>>
    /\ msg = <<>>
    /\ ret = NoRet
    /\ inflight = <<>>
    /\ inbuf = <<>>
    /\ inflight_old = 0
    /\ inbuf_old = 0
    /\ reply = NoReply
    /\ frame_old = 0
    /\ outstanding = 0

BusInit ==
    /\ GuiConstructed
    /\ RestConstructed
    /\ plugged = TRUE
    /\ BusConstructed

\* line 48: self.write(cmd.encode('ascii')); the device picks its reply
\* among replies
bus_write(replies) ==
    /\ pc = "write"
    /\ plugged
    /\ \E r \in replies :
          /\ inflight' = inflight \o Wire(cmd, r)
          /\ reply' = r
    /\ inflight_old' = Len(inflight)
    /\ inbuf_old' = Len(inbuf)
    /\ outstanding' = outstanding + 1
    /\ pc' = "sleep"
    /\ UNCHANGED <<guiVars, bat_ques_set, bat_pack_set, cmd, msg, ret, inbuf, frame_old>>
    /\ UNCHANGED restVars

\* the first m bytes of inflight reach the input buffer
Deliver(m) ==
    /\ inbuf' = inbuf \o SubSeq(inflight, 1, m)
    /\ inflight' = SubSeq(inflight, m + 1, Len(inflight))
    /\ inbuf_old' = inbuf_old + (IF m < inflight_old THEN m ELSE inflight_old)
    /\ inflight_old' = (IF m < inflight_old THEN inflight_old - m ELSE 0)

\* line 56: time.sleep(self.wait_time); what the device has emitted reaches
\* the input buffer meanwhile, but for the last k bytes
bus_sleep(k) ==
    /\ pc = "sleep"
    /\ k <= Len(inflight)
    /\ k > 0 => MayBeLate(reply)
    /\ Deliver(Len(inflight) - k)
    /\ pc' = "drain"
    /\ UNCHANGED <<guiVars, bat_ques_set, bat_pack_set, cmd, msg, ret, reply, frame_old, outstanding>>
    /\ UNCHANGED restVars

\* bytes held back reach the input buffer
device_deliver ==
    /\ inflight # <<>>
    /\ pc # "sleep"
    /\ Deliver(Len(inflight))
    /\ UNCHANGED <<guiVars, bat_ques_set, bat_pack_set, pc, cmd, msg, ret, reply, frame_old, outstanding>>
    /\ UNCHANGED restVars

\* lines 59-65: read byte after byte until inWaiting() is 0
bus_drain ==
    /\ pc = "drain"
    /\ msg' = ReadAll(inbuf)
    /\ frame_old' = inbuf_old
    /\ inbuf' = <<>>
    /\ inbuf_old' = 0
    /\ outstanding' = outstanding - 1
    /\ pc' = "decode"
    /\ UNCHANGED <<guiVars, bat_ques_set, bat_pack_set, cmd, ret, inflight, inflight_old, reply>>
    /\ UNCHANGED restVars

\* lines 67-80
bus_decode ==
    /\ pc = "decode"
    /\ ret' = send_cmd_result(cmd, msg)
    /\ pc' = "done"
    /\ UNCHANGED <<guiVars, bat_ques_set, bat_pack_set, cmd, msg, inflight, inbuf,
                   inflight_old, inbuf_old, reply, frame_old, outstanding>>
    /\ UNCHANGED restVars

(***************************************************************************)
(* SpecBus: a Bus on which send_cmd is called again and again, with any    *)
(* of the commands of BusCmds, by a caller that drops the result.          *)
(***************************************************************************)
BusCmds ==
    {a \o q : a \in {bat1, bat4}, q \in BusQuesSet \cup {qq}}
    \cup { bat1 \o <<"!","s","5","_">>, <<"#","a","d","a","!","p","2","-","x">> }

caller_call(c) ==
    /\ pc = "idle"
    /\ pc' = "write"
    /\ cmd' = c
    /\ UNCHANGED <<guiVars, bat_ques_set, bat_pack_set, msg, ret, inflight, inbuf,
                   inflight_old, inbuf_old, reply, frame_old, outstanding>>
    /\ UNCHANGED restVars

caller_return ==
    /\ pc = "done"
    /\ pc' = "idle"
    /\ cmd' = <<>>
    /\ msg' = <<>>
    /\ ret' = NoRet
    /\ reply' = NoReply
    /\ frame_old' = 0
    /\ UNCHANGED <<guiVars, bat_ques_set, bat_pack_set, inflight, inbuf, inflight_old,
                   inbuf_old, outstanding>>
    /\ UNCHANGED restVars

NextBus ==
    \/ \E c \in BusCmds : caller_call(c)
    \/ bus_write(RichReplies(cmd))
    \/ \E k \in 0..MaxLate : bus_sleep(k)
    \/ device_deliver
    \/ bus_drain
    \/ bus_decode
    \/ caller_return

SpecBus == BusInit /\ [][NextBus]_vars


(***************************************************************************)
(* PowerSupply.  Voltages and currents are counted in millionths of a volt *)
(* or ampere (Unit(1) is 1 V or 1 A), gains and offsets in units of 10^-8, *)
(* so that (target - offset) / gain is (100 * target - offset) / gain.     *)
(***************************************************************************)
Unit(v) == v * 1000000

\* callback_connect, lines 942-946
pwr_name == <<"#", "a", "d", "a">>
v_gain == 78141
v_offset == -5384200
i_gain == 20677
i_offset == 1447500

\* PowerSupply.__init__, lines 96-106
max_voltage == 16
max_current == 4
supply1_v_channel == <<"!", "a", "1", ".">>
supply1_c_channel == <<"!", "a", "2", ".">>
supply2_v_channel == <<"!", "a", "3", ".">>
supply2_c_channel == <<"!", "a", "4", ".">>
execute_str == <<"x">>
load1_channel == <<"!", "p", "2">>
load2_channel == <<"!", "p", "3">>
on_signal_str == <<"+", "x">>
off_signal_str == <<"-", "x">>

\* int(a / b) for b > 0: the quotient, rounded towards zero
PyIntDiv(a, b) == IF a >= 0 THEN a \div b ELSE 0 - ((0 - a) \div b)

\* lines 114 and 127
input_val(target, offset, gain) == PyIntDiv(100 * target - offset, gain)
\* lines 117 and 130
input_cmd(target, offset, gain) == ToHex(input_val(target, offset, gain))

\* lines 120 and 133: the command handed to bus.send_cmd
voltage_cmd(target, channel) ==
    pwr_name \o channel \o input_cmd(target, v_offset, v_gain) \o execute_str
current_cmd(target, channel) ==
    pwr_name \o channel \o input_cmd(target, i_offset, i_gain) \o execute_str
\* lines 139-146
load_cmd(load, channel) ==
    pwr_name \o channel \o (IF load = 0 THEN off_signal_str ELSE on_signal_str)

\* lines 301-304: max(float(entry), 0)
desired(entry) == IF entry < 0 THEN 0 ELSE entry

(***************************************************************************)
(* The GUI.  A callback in progress is a frame of stack:                   *)
(*   cb      "gra" (callback_gra_ex), "trm" (callback_trm_ex) or the name  *)
(*           of the callback that put up an error box                      *)
(*   at      where it stands: "error" (a messagebox.showerror is open),    *)
(*           "scan"/"scan_wait" (lines 498-504, before/inside send_cmd),   *)
(*           "sleep" (line 553), "ask"/"ask_wait" (line 569, before/inside *)
(*           send_cmd), "not_responding" (the box of line 596), "plot"     *)
(*           (lines 599-647), "pause" (plt.pause, line 651)                *)
(*   bl, vl  bat_list and var_list; bi, vi the loop indices into them      *)
(*   missed  a question of this cycle got no data appended to pack_data    *)
(*   text    the text of the open box                                      *)
(***************************************************************************)
Frame(cb, at, bl, vl, text) ==
    [cb |-> cb, at |-> at, bl |-> bl, vl |-> vl, bi |-> 1, vi |-> 1,
     missed |-> FALSE, text |-> text]
ErrorBox(cb, text) == Frame(cb, "error", <<>>, <<>>, text)

Top == stack[Len(stack)]
Push(f) == stack' = Append(stack, f)
Pop == stack' = SubSeq(stack, 1, Len(stack) - 1)
SetTop(f) == stack' = [stack EXCEPT ![Len(stack)] = f]

\* Tk dispatches an event only while an event loop runs: root.mainloop()
\* (line 1250) when no callback is in progress, or plt.pause (line 651)
\* (faulty variant: time.sleep of line 56 taken for an event loop too)
EventLoopRunning_sleep ==
    exc = "" /\ (IF stack = <<>> THEN TRUE ELSE Top.at = "pause" \/ pc = "sleep")
EventLoopRunning == exc = "" /\ (IF stack = <<>> THEN TRUE ELSE Top.at = "pause")

\* the callback on top of the stack stands at a
At(a) == exc = "" /\ stack # <<>> /\ Top.at = a

VarCode(x) ==
    CASE x = "v" -> qv [] x = "i" -> qi [] x = "ai" -> qai [] x = "p" -> qp
      [] x = "k" -> qk [] x = "q" -> qq [] x = "c" -> qc

InOrder(order, chosen) == SelectSeq(order, LAMBDA x : x \in chosen)

\* lines 455-465 and 705-715
gra_bat_list(b) == InOrder(<<bat4, bat1, bat3, bat2>>, b)
trm_bat_list(b) == InOrder(<<bat1, bat2, bat3, bat4>>, b)

\* lines 467-489 and 717-739
var_list_of(q) ==
    LET names == InOrder(<<"v", "i", "ai", "p", "k", "q", "c">>,
                         IF "ai" \in q THEN q \cup {"i"} ELSE q)
    IN  [k \in 1..Len(names) |-> VarCode(names[k])]

\* lines 501 and 751
scan_cmd(bat) == bat \o <<"!", "s">> \o ToHex(scan_time) \o <<"_">>

\* the checkboxes the user of the model clicks, the scan time the Init draws
GraPacks == {bat4, bat1}
GraVars == {"v"}
TrmPacks == {bat1}
TrmVars == {"ai"}
ScanTimes == {5}

\* the replies the device gives to the GUI's commands
GuiReplies(c) == {EchoReply, GoodReply, Rep("code", 5, 0, "_", " ", 3, 0, "~")}

SerialLost == [tag |-> "SerialException", parsed |-> FALSE, latency |-> 0, bat_readings |-> <<>>]

\* line 48 on a port that is gone: serial raises SerialException
bus_write_lost ==
    /\ pc = "write"
    /\ ~plugged
    /\ ret' = SerialLost
    /\ pc' = "done"
    /\ UNCHANGED <<guiVars, bat_ques_set, bat_pack_set, cmd, msg, inflight, inbuf,
                   inflight_old, inbuf_old, reply, frame_old, outstanding>>
    /\ UNCHANGED restVars

\* a callback calls self.bus.send_cmd(c)
Call(c) ==
    /\ cmd' = c
    /\ pc' = "write"
    /\ UNCHANGED <<bat_ques_set, bat_pack_set, msg, ret, inflight, inbuf,
                   inflight_old, inbuf_old, reply, frame_old, outstanding>>

\* send_cmd has returned or raised: its locals are gone
Returned ==
    /\ pc' = "idle"
    /\ cmd' = <<>>
    /\ msg' = <<>>
    /\ ret' = NoRet
    /\ reply' = NoReply
    /\ frame_old' = 0
    /\ UNCHANGED <<bat_ques_set, bat_pack_set, inflight, inbuf, inflight_old,
                   inbuf_old, outstanding>>

\* the user clicks a checkbox
user_toggle_gra_b(b) ==
    /\ EventLoopRunning
    /\ var_gra_b' = (var_gra_b \ {b}) \cup ({b} \ var_gra_b)
    /\ UNCHANGED <<busVars, bus_connected, scan_time, var_gra_q, var_trm_b, var_trm_q,
                   stack, exc, plugged>>
    /\ UNCHANGED restVars

user_toggle_gra_q(x) ==
    /\ EventLoopRunning
    /\ var_gra_q' = (var_gra_q \ {x}) \cup ({x} \ var_gra_q)
    /\ UNCHANGED <<busVars, bus_connected, scan_time, var_gra_b, var_trm_b, var_trm_q,
                   stack, exc, plugged>>
    /\ UNCHANGED restVars

user_toggle_trm_b(b) ==
    /\ EventLoopRunning
    /\ var_trm_b' = (var_trm_b \ {b}) \cup ({b} \ var_trm_b)
    /\ UNCHANGED <<busVars, bus_connected, scan_time, var_gra_b, var_gra_q, var_trm_q,
                   stack, exc, plugged>>
    /\ UNCHANGED restVars

user_toggle_trm_q(x) ==
    /\ EventLoopRunning
    /\ var_trm_q' = (var_trm_q \ {x}) \cup ({x} \ var_trm_q)
    /\ UNCHANGED <<busVars, bus_connected, scan_time, var_gra_b, var_gra_q, var_trm_b,
                   stack, exc, plugged>>
    /\ UNCHANGED restVars

\* the serial adapter is pulled out
unplug ==
    /\ plugged
    /\ plugged' = FALSE
    /\ UNCHANGED <<busVars, bus_connected, scan_time, var_gra_b, var_gra_q, var_trm_b,
                   var_trm_q, stack, exc>>
    /\ UNCHANGED restVars

\* an exception that leaves a callback reaches Tk's dispatcher, which prints
\* the traceback and goes on with the event loop it was called from
report_callback_exception ==
    /\ exc # ""
    /\ exc' = ""
    /\ UNCHANGED <<busVars, bus_connected, scan_time, var_gra_b, var_gra_q, var_trm_b,
                   var_trm_q, stack, plugged>>
    /\ UNCHANGED restVars

\* the user closes an error box: the callback that opened it returns
dismiss_error ==
    /\ At("error")
    /\ Pop
    /\ exc' = ""
    /\ UNCHANGED <<busVars, bus_connected, scan_time, var_gra_b, var_gra_q, var_trm_b,
                   var_trm_q, plugged>>
    /\ UNCHANGED restVars

\* lines 926-965
callback_connect ==
    /\ EventLoopRunning
    /\ Len(stack) < MaxDepth
    /\ IF plugged
       THEN /\ bat_ques_set' = BusQuesSet
            /\ bat_pack_set' = BusPackSet
            /\ bus_connected' = TRUE
            /\ exc' = ""
            /\ UNCHANGED stack
       ELSE /\ bus_connected' = FALSE
            /\ Push(ErrorBox("connect", "Serial Bus not available"))
            /\ UNCHANGED <<bat_ques_set, bat_pack_set, exc>>
    /\ UNCHANGED <<pc, cmd, msg, ret, inflight, inbuf, inflight_old, inbuf_old, reply,
                   frame_old, outstanding, scan_time, var_gra_b, var_gra_q, var_trm_b,
                   var_trm_q, plugged>>
    /\ UNCHANGED restVars

\* callback_recharge_off, callback_bat_ex and callback_pwr_ex in progress:
\* at "set_voltage" before the first self.pwr_supply.set_voltage(...) (lines
\* 907 and 315), at "recharge_off" before self.callback_recharge_off() (line
\* 343), at "entries" with the four entries read (lines 275-279), at
\* "warning" and "invalid" with the box of line 311 or 327 open
CbFrame(cb, at) == [cb |-> cb, at |-> at, text |-> ""]

NotConnected == "You are not connected to the Serial Bus"

\* lines 892-899
callback_recharge_off ==
    /\ EventLoopRunning
    /\ Len(stack) < MaxDepth
    /\ Push(IF ~bus_connected THEN ErrorBox("recharge_off", NotConnected)
                              ELSE CbFrame("recharge_off", "set_voltage"))
    /\ UNCHANGED <<busVars, bus_connected, scan_time, var_gra_b, var_gra_q, var_trm_b,
                   var_trm_q, exc, plugged, restVars>>

\* (faulty variant: line 338 left out)
callback_bat_ex_unguarded ==
    /\ EventLoopRunning
    /\ Len(stack) < MaxDepth
    /\ Push(CbFrame("bat", "recharge_off"))
    /\ UNCHANGED <<busVars, bus_connected, scan_time, var_gra_b, var_gra_q, var_trm_b,
                   var_trm_q, exc, plugged, restVars>>

\* lines 331-343
callback_bat_ex ==
    /\ EventLoopRunning
    /\ Len(stack) < MaxDepth
    /\ Push(IF ~bus_connected THEN ErrorBox("bat", NotConnected)
                              ELSE CbFrame("bat", "recharge_off"))
    /\ UNCHANGED <<busVars, bus_connected, scan_time, var_gra_b, var_gra_q, var_trm_b,
                   var_trm_q, exc, plugged, restVars>>

\* what the user has typed into entry_pwr_s1_v, entry_pwr_s1_i, entry_pwr_s2_v
\* and entry_pwr_s2_i: numbers in millionths, or text that float() refuses
\* (ok tells whether float() accepts the text, val is its value then)
Num(v) == [ok |-> TRUE, val |-> v]
NotANumber == [ok |-> FALSE, val |-> 0]
PwrEntries ==
    { <<Num(0), Num(0), Num(0), Num(0)>>,
      <<Num(Unit(12)), Num(Unit(2)), Num(0 - Unit(1)), Num(0)>>,
      <<Num(Unit(12)), Num(Unit(2)), Num(Unit(20)), Num(0)>>,
      <<Num(Unit(12)), Num(Unit(2)), Num(0), NotANumber>>,
      <<NotANumber, Num(Unit(2)), Num(0), Num(0)>> }

\* lines 264-279; discharge_on is False (line 161), lines 280-298 are skipped
callback_pwr_ex(entries) ==
    /\ EventLoopRunning
    /\ Len(stack) < MaxDepth
    /\ Push(IF ~bus_connected THEN ErrorBox("pwr", NotConnected)
                              ELSE [cb |-> "pwr", at |-> "entries", text |-> "",
                                    entries |-> entries])
    /\ UNCHANGED <<busVars, bus_connected, scan_time, var_gra_b, var_gra_q, var_trm_b,
                   var_trm_q, exc, plugged, restVars>>

\* float(entry) raises ValueError for one of the four entries
SomeInvalid(entries) == \E k \in 1..4 : ~entries[k].ok
\* lines 307-310
HighDetected(entries) ==
    \/ desired(entries[1].val) > Unit(max_voltage)
    \/ desired(entries[2].val) > Unit(max_current)
    \/ desired(entries[3].val) > Unit(max_voltage)
    \/ desired(entries[4].val) > Unit(max_current)

\* lines 300-311 and 326-327: the four float()s, then the warning box, or
\* the error box of the except ValueError
pwr_validate ==
    /\ At("entries")
    /\ SetTop(IF SomeInvalid(Top.entries)
              THEN [Top EXCEPT !.at = "invalid",
                       !.text = "Invalid Voltage and/or Current Command, please insert a valid number"]
              ELSE IF HighDetected(Top.entries)
              THEN [Top EXCEPT !.at = "warning",
                       !.text = "High voltage or high current detected. Proceed with caution"]
              ELSE [Top EXCEPT !.at = "set_voltage"])
    /\ UNCHANGED <<busVars, bus_connected, scan_time, var_gra_b, var_gra_q, var_trm_b,
                   var_trm_q, exc, plugged, restVars>>

\* line 311: the warning box is closed, the commands follow
pwr_warning_closed ==
    /\ At("warning")
    /\ SetTop([Top EXCEPT !.at = "set_voltage", !.text = ""])
    /\ UNCHANGED <<busVars, bus_connected, scan_time, var_gra_b, var_gra_q, var_trm_b,
                   var_trm_q, exc, plugged, restVars>>

\* line 328: the error box is closed, then self.entry_pwr_v.delete(0, tk.END);
\* GUI has no attribute entry_pwr_v, AttributeError leaves the callback
pwr_invalid_closed ==
    /\ At("invalid")
    /\ Pop
    /\ exc' = "AttributeError"
    /\ UNCHANGED <<busVars, bus_connected, scan_time, var_gra_b, var_gra_q, var_trm_b,
                   var_trm_q, plugged, restVars>>

\* lines 907 and 315: the arguments of self.pwr_supply.set_voltage(desired_voltage_s1,
\* self.supply1_v_channel, self.bus) are evaluated before the call; GUI has no
\* attribute supply1_v_channel (PowerSupply has, line 98), AttributeError leaves
\* callback_recharge_off or callback_pwr_ex before anything is sent.  Line 343:
\* callback_bat_ex calls callback_recharge_off, which raises so, and has no
\* handler for it
raise_no_channel ==
    /\ exc = ""
    /\ stack # <<>>
    /\ Top.at \in {"set_voltage", "recharge_off"}
    /\ Pop
    /\ exc' = "AttributeError"
    /\ UNCHANGED <<busVars, bus_connected, scan_time, var_gra_b, var_gra_q, var_trm_b,
                   var_trm_q, plugged, restVars>>

\* (faulty variant: the check of scan_time, lines 424-425, left out)
poll_start_any_scan_time(cb, b, q, bl) ==
    IF ~bus_connected
    THEN Push(ErrorBox(cb, "You are not connected to the Serial Bus"))
    ELSE IF b = {}
    THEN Push(ErrorBox(cb, "Please select one or more batteries to graph"))
    ELSE IF q = {}
    THEN Push(ErrorBox(cb, "Please select one or more variables to graph"))
    ELSE Push(Frame(cb, "scan", bl, var_list_of(q), ""))

\* lines 411-446 and 662-697: the checks, then the lists
poll_start(cb, b, q, bl) ==
    IF ~bus_connected
    THEN Push(ErrorBox(cb, "You are not connected to the Serial Bus"))
    ELSE IF scan_time = 0
    THEN Push(ErrorBox(cb, "Please enter a valid Scan Time in the Battery Pack window"))
    ELSE IF b = {}
    THEN Push(ErrorBox(cb, "Please select one or more batteries to graph"))
    ELSE IF q = {}
    THEN Push(ErrorBox(cb, "Please select one or more variables to graph"))
    ELSE Push(Frame(cb, "scan", bl, var_list_of(q), ""))

Polls(b, q) == bus_connected /\ scan_time # 0 /\ b # {} /\ q # {}

callback_gra_ex ==
    /\ EventLoopRunning
    /\ Len(stack) < MaxDepth
    /\ poll_start("gra", var_gra_b, var_gra_q, gra_bat_list(var_gra_b))
    \* line 473
    /\ var_gra_q' = IF Polls(var_gra_b, var_gra_q) /\ "ai" \in var_gra_q
                    THEN var_gra_q \cup {"i"} ELSE var_gra_q
    /\ UNCHANGED <<busVars, bus_connected, scan_time, var_gra_b, var_trm_b, var_trm_q,
                   exc, plugged>>
    /\ UNCHANGED restVars

callback_trm_ex ==
    /\ EventLoopRunning
    /\ Len(stack) < MaxDepth
    /\ poll_start("trm", var_trm_b, var_trm_q, trm_bat_list(var_trm_b))
    \* line 723 sets var_gra_i
    /\ var_gra_q' = IF Polls(var_trm_b, var_trm_q) /\ "ai" \in var_trm_q
                    THEN var_gra_q \cup {"i"} ELSE var_gra_q
    /\ UNCHANGED <<busVars, bus_connected, scan_time, var_gra_b, var_trm_b, var_trm_q,
                   exc, plugged>>
    /\ UNCHANGED restVars

\* lines 498-504 and 748-754: the scan command of the next pack
poll_scan ==
    /\ At("scan")
    /\ Call(scan_cmd(Top.bl[Top.bi]))
    /\ SetTop([Top EXCEPT !.at = "scan_wait"])
    /\ UNCHANGED <<bus_connected, scan_time, var_gra_b, var_gra_q, var_trm_b, var_trm_q,
                   exc, plugged>>
    /\ UNCHANGED restVars

\* send_cmd is back; the scan loop is outside the try of lines 547 and 766
poll_scan_done ==
    /\ At("scan_wait")
    /\ pc = "done"
    /\ Returned
    /\ IF ret.tag \in {"SerialException", "ValueError"}
       THEN Pop /\ exc' = ret.tag
       ELSE /\ SetTop(IF Top.bi < Len(Top.bl) THEN [Top EXCEPT !.at = "scan", !.bi = Top.bi + 1]
                                              ELSE [Top EXCEPT !.at = "sleep"])
            /\ UNCHANGED exc
    /\ UNCHANGED <<bus_connected, scan_time, var_gra_b, var_gra_q, var_trm_b, var_trm_q,
                   plugged>>
    /\ UNCHANGED restVars

\* lines 553-559 and 772-782: time.sleep(self.scan_time), then the first pack
poll_sleep ==
    /\ At("sleep")
    /\ SetTop([Top EXCEPT !.at = "ask", !.bi = 1, !.vi = 1, !.missed = FALSE])
    /\ UNCHANGED <<busVars, bus_connected, scan_time, var_gra_b, var_gra_q, var_trm_b,
                   var_trm_q, exc, plugged>>
    /\ UNCHANGED restVars

\* the frame after variable vi of pack bi is done
Advance(f) ==
    IF f.vi < Len(f.vl) THEN [f EXCEPT !.at = "ask", !.vi = f.vi + 1]
    ELSE IF f.bi < Len(f.bl) THEN [f EXCEPT !.at = "ask", !.bi = f.bi + 1, !.vi = 1]
    ELSE [f EXCEPT !.at = IF f.cb = "gra" THEN "plot" ELSE "sleep"]

\* line 597: break out of the loop over the variables of pack bi
Break(f) ==
    IF f.bi < Len(f.bl) THEN [f EXCEPT !.at = "ask", !.bi = f.bi + 1, !.vi = 1, !.missed = TRUE]
    ELSE [f EXCEPT !.at = "plot", !.missed = TRUE]

\* lines 568-592 and 787-812: the next question
poll_ask ==
    /\ At("ask")
    /\ IF Top.vl[Top.vi] = qai
       THEN SetTop(Advance(Top)) /\ UNCHANGED busVars
       ELSE Call(Top.bl[Top.bi] \o Top.vl[Top.vi]) /\ SetTop([Top EXCEPT !.at = "ask_wait"])
    /\ UNCHANGED <<bus_connected, scan_time, var_gra_b, var_gra_q, var_trm_b, var_trm_q,
                   exc, plugged>>
    /\ UNCHANGED restVars

\* lines 569-588 and 789-804: what unpacking and converting r for pack bat does
NonEmpty(readings) == SelectSeq(readings, LAMBDA t : t # <<>>)
Outcome(r, bat) ==
    IF r.tag \in {"SerialException", "ValueError"} THEN r.tag
    ELSE IF r.tag = "None" THEN "TypeError"
    ELSE IF \E k \in 1..Len(NonEmpty(r.bat_readings)) : ~PyInt(NonEmpty(r.bat_readings)[k]).ok
         THEN "ValueError"
    ELSE IF Len(NonEmpty(r.bat_readings)) < dict_pack_to_nums(bat) THEN "IndexError"
    ELSE "ok"

\* which exceptions the polling caller cb takes as 'no data this cycle'
\* (the except TypeError of line 595; callback_trm_ex has none)
SkipsCycle(cb, o) == cb = "gra" /\ o = "TypeError"

poll_answer ==
    /\ At("ask_wait")
    /\ pc = "done"
    /\ Returned
    /\ LET o == Outcome(ret, Top.bl[Top.bi])
       IN  IF o = "ok"
           THEN SetTop(Advance(Top)) /\ UNCHANGED <<exc, bus_connected>>
           ELSE IF o = "SerialException"
           \* lines 657-659 and 815-817
           THEN Pop /\ bus_connected' = FALSE /\ exc' = ""
           ELSE IF SkipsCycle(Top.cb, o)
           THEN /\ SetTop([Top EXCEPT !.at = "not_responding",
                              !.text = "Warning: some or all battery packs are not responding"])
                /\ UNCHANGED <<exc, bus_connected>>
           ELSE Pop /\ exc' = o /\ UNCHANGED bus_connected
    /\ UNCHANGED <<scan_time, var_gra_b, var_gra_q, var_trm_b, var_trm_q, plugged>>
    /\ UNCHANGED restVars

\* lines 596-597: the box is closed, break
poll_not_responding ==
    /\ At("not_responding")
    /\ SetTop([Break(Top) EXCEPT !.text = ""])
    /\ UNCHANGED <<busVars, bus_connected, scan_time, var_gra_b, var_gra_q, var_trm_b,
                   var_trm_q, exc, plugged>>
    /\ UNCHANGED restVars

\* lines 599-647: ax.plot(time, data) raises ValueError when the two lists
\* differ in length, as they do once a time was appended (line 559) and no data
poll_plot ==
    /\ At("plot")
    /\ IF Top.missed
       THEN Pop /\ exc' = "ValueError"
       ELSE SetTop([Top EXCEPT !.at = "pause"]) /\ UNCHANGED exc
    /\ UNCHANGED <<busVars, bus_connected, scan_time, var_gra_b, var_gra_q, var_trm_b,
                   var_trm_q, plugged>>
    /\ UNCHANGED restVars

\* line 651: plt.pause returns
pause_return ==
    /\ At("pause")
    /\ SetTop([Top EXCEPT !.at = "sleep"])
    /\ UNCHANGED <<busVars, bus_connected, scan_time, var_gra_b, var_gra_q, var_trm_b,
                   var_trm_q, exc, plugged>>
    /\ UNCHANGED restVars

\* lines 652-654: the graph window was closed, tk.TclError, break
graph_closed ==
    /\ At("pause")
    /\ Pop
    /\ exc' = ""
    /\ UNCHANGED <<busVars, bus_connected, scan_time, var_gra_b, var_gra_q, var_trm_b,
                   var_trm_q, plugged>>
    /\ UNCHANGED restVars

(***************************************************************************)
(* SpecGUI: the GUI, the user clicking, the device answering within the   *)
(* wait window.  Every field starts as GUI.__init__ leaves it, but         *)
(* scan_time: 0 stands for the None of line 160, ScanTimes for what line   *)
(* 365 assigns.  Line 365 is the only assignment to scan_time and follows  *)
(* the call of line 343, which raises (see callback_no_channel), so the    *)
(* polling loops of callback_gra_ex and callback_trm_ex run only from a    *)
(* GUI in which scan_time has been put in place; SpecGUI starts there too. *)
(***************************************************************************)
GuiInit ==
    /\ RestConstructed
    /\ bus_connected = FALSE
    /\ scan_time \in {0} \cup ScanTimes
    /\ var_gra_b = {}
    /\ var_gra_q = {}
    /\ var_trm_b = {}
    /\ var_trm_q = {}
    /\ stack = <<>>
    /\ exc = ""
    /\ plugged = TRUE
    /\ bat_ques_set = {}
    /\ bat_pack_set = {}
    /\ pc = "idle"
    /\ cmd = <<>>
    /\ msg = <<>>
    /\ ret = NoRet
    /\ inflight = <<>>
    /\ inbuf = <<>>
    /\ inflight_old = 0
    /\ inbuf_old = 0
    /\ reply = NoReply
    /\ frame_old = 0
    /\ outstanding = 0

NextGUI ==
    \/ \E b \in GraPacks : user_toggle_gra_b(b)
    \/ \E x \in GraVars : user_toggle_gra_q(x)
    \/ \E b \in TrmPacks : user_toggle_trm_b(b)
    \/ \E x \in TrmVars : user_toggle_trm_q(x)
    \/ unplug
    \/ dismiss_error
    \/ report_callback_exception
    \/ callback_connect
    \/ callback_recharge_off
    \/ callback_bat_ex
    \/ \E entries \in PwrEntries : callback_pwr_ex(entries)
    \/ pwr_validate
    \/ pwr_warning_closed
    \/ pwr_invalid_closed
    \/ raise_no_channel
    \/ callback_gra_ex
    \/ callback_trm_ex
    \/ poll_scan
    \/ poll_scan_done
    \/ poll_sleep
    \/ poll_ask
    \/ poll_answer
    \/ poll_not_responding
    \/ poll_plot
    \/ pause_return
    \/ graph_closed
    \/ bus_write(GuiReplies(cmd))
    \/ bus_write_lost
    \/ bus_sleep(0)
    \/ bus_drain
    \/ bus_decode

SpecGUI == GuiInit /\ [][NextGUI]_vars

(***************************************************************************)
(* The methods of PowerSupply.                                             *)
(***************************************************************************)
\* a call of a PowerSupply method in progress: the commands it has still to
\* send, at "send" before bus.send_cmd and at "wait" inside it
PwrFrame(cb, target, cmds) == [cb |-> cb, at |-> "send", target |-> target, cmds |-> cmds]

\* the numbers entered, in millionths
VoltageEntries == {0 - Unit(1), 0, Unit(1), 12500000, Unit(16), 16001000, Unit(20)}
CurrentEntries == {0 - Unit(1), 0, 10000, 14475, Unit(2), Unit(4), 4001000, Unit(5)}

set_voltage(target, channel) ==
    /\ stack = <<>>
    /\ exc = ""
    /\ Push(PwrFrame("set_voltage", target, <<voltage_cmd(target, channel)>>))
    /\ UNCHANGED <<busVars, bus_connected, scan_time, var_gra_b, var_gra_q, var_trm_b,
                   var_trm_q, exc, plugged, restVars>>

set_current(target, channel) ==
    /\ stack = <<>>
    /\ exc = ""
    /\ Push(PwrFrame("set_current", target, <<current_cmd(target, channel)>>))
    /\ UNCHANGED <<busVars, bus_connected, scan_time, var_gra_b, var_gra_q, var_trm_b,
                   var_trm_q, exc, plugged, restVars>>

set_load(load1, load2) ==
    /\ stack = <<>>
    /\ exc = ""
    /\ Push(PwrFrame("set_load", 0, <<load_cmd(load1, load1_channel),
                                      load_cmd(load2, load2_channel)>>))
    /\ UNCHANGED <<busVars, bus_connected, scan_time, var_gra_b, var_gra_q, var_trm_b,
                   var_trm_q, exc, plugged, restVars>>

\* bus.send_cmd(...) of lines 120, 133, 140-146
pwr_send ==
    /\ At("send")
    /\ Call(Head(Top.cmds))
    /\ SetTop([Top EXCEPT !.at = "wait"])
    /\ UNCHANGED <<bus_connected, scan_time, var_gra_b, var_gra_q, var_trm_b, var_trm_q,
                   exc, plugged, restVars>>

\* send_cmd is back, its result dropped: the next command, or the method ends
pwr_sent ==
    /\ At("wait")
    /\ pc = "done"
    /\ Returned
    /\ IF ret.tag \in {"SerialException", "ValueError"}
       THEN Pop /\ exc' = ret.tag
       ELSE /\ IF Len(Top.cmds) > 1
               THEN SetTop([Top EXCEPT !.at = "send", !.cmds = Tail(Top.cmds)])
               ELSE Pop
            /\ UNCHANGED exc
    /\ UNCHANGED <<bus_connected, scan_time, var_gra_b, var_gra_q, var_trm_b, var_trm_q,
                   plugged, restVars>>

(***************************************************************************)
(* SpecPwr: a PowerSupply with the gains of callback_connect and a Bus,    *)
(* its methods called again and again with the targets callback_pwr_ex     *)
(* makes of the numbers entered.                                           *)
(***************************************************************************)
NextPwr ==
    \/ \E e \in VoltageEntries, ch \in {supply1_v_channel, supply2_v_channel} :
          set_voltage(desired(e), ch)
    \/ \E e \in CurrentEntries, ch \in {supply1_c_channel, supply2_c_channel} :
          set_current(desired(e), ch)
    \/ \E load1 \in {0, 1}, load2 \in {0, 1} : set_load(load1, load2)
    \/ pwr_send
    \/ pwr_sent
    \/ bus_write(GuiReplies(cmd))
    \/ bus_sleep(0)
    \/ bus_drain
    \/ bus_decode

SpecPwr == BusInit /\ [][NextPwr]_vars

(***************************************************************************)
(* callback_bat_ex from line 344 on: the scan time entry and the relay     *)
(* commands.  Its frame holds the entry read (entry), the index into       *)
(* ordered_pack_names (bi) and the commands handed to send_cmd so far      *)
(* (sent); it is at "confirm" with the box of line 344 open, at            *)
(* "invalid_scan" with the box of line 362 or 370 open, at "relays" before *)
(* and at "relay_wait" inside the send_cmd of line 408.                    *)
(***************************************************************************)
\* line 182, as pack codes (line 187)
ordered_pack_names == <<bat4, bat1, bat3, bat2>>

\* lines 375-376
max_num_relays == 10
mid_num_relays == 5
\* line 379
init_relay_cmd == <<"!", "r", "b">>

\* str(n) for n in 0..9
PyStr(n) == HexDigitChars[n + 1]

\* (faulty variant of relay_bits: the bits above the pack's cell count left out)
RECURSIVE relay_bits_short(_, _)
relay_bits_short(bat, relay_num) ==
    IF relay_num > max_num_relays THEN <<>>
    ELSE (IF relay_num <= dict_pack_to_nums(bat)
          THEN <<PyStr(dict_bat_relay_var[bat][relay_num])>> ELSE <<>>)
         \o (IF relay_num = mid_num_relays THEN <<",">> ELSE <<>>)
         \o relay_bits_short(bat, relay_num + 1)

\* lines 388-402: what the loop adds to relay_cmd from relay_num on
RECURSIVE relay_bits(_, _)
relay_bits(bat, relay_num) ==
    IF relay_num > max_num_relays THEN <<>>
    ELSE (IF relay_num <= dict_pack_to_nums(bat)
          THEN <<PyStr(dict_bat_relay_var[bat][relay_num])>> ELSE <<"0">>)
         \o (IF relay_num = mid_num_relays THEN <<",">> ELSE <<>>)
         \o relay_bits(bat, relay_num + 1)

\* lines 385-405
relay_cmd(bat) == bat \o init_relay_cmd \o relay_bits(bat, 1) \o execute_str

\* the sampled settings of the relay checkboxes: all on, all off, others
RelayPattern(j) ==
    [b \in BusPackSet |->
        [k \in 1..dict_pack_to_nums(b) |->
            IF j = 0 THEN 1
            ELSE IF j = 1 THEN 0
            ELSE IF (k * j + dict_pack_to_nums(b)) % (j + 1) = 0 THEN 1 ELSE 0]]

\* what the user has typed into entry_bat_scan, in millionths (line 1051: 5)
ScanEntries == {Num(Unit(5)), Num(5700000), Num(Unit(18)), Num(400000), Num(0),
                Num(0 - Unit(1)), NotANumber}

\* lines 351-352: int(float(entry))
scan_time_of(entry) == PyIntDiv(entry.val, Unit(1))
ValidScanTime(entry) == entry.ok /\ scan_time_of(entry) > 0

\* line 344: the box is closed; lines 346-371
bat_confirmed(entry) ==
    /\ At("confirm")
    /\ IF ValidScanTime(entry)
       THEN /\ scan_time' = scan_time_of(entry)
            /\ SetTop([Top EXCEPT !.at = "relays", !.entry = entry])
       ELSE /\ SetTop([Top EXCEPT !.at = "invalid_scan", !.entry = entry,
                          !.text = "Invalid Scan Time Command, please insert a valid number"])
            /\ UNCHANGED scan_time
    /\ UNCHANGED <<busVars, bus_connected, var_gra_b, var_gra_q, var_trm_b, var_trm_q,
                   exc, plugged, restVars>>

\* lines 362 and 370: the box is closed; the relay commands follow all the same
bat_invalid_closed ==
    /\ At("invalid_scan")
    /\ SetTop([Top EXCEPT !.at = "relays", !.text = ""])
    /\ UNCHANGED <<busVars, bus_connected, scan_time, var_gra_b, var_gra_q, var_trm_b,
                   var_trm_q, exc, plugged, restVars>>

\* lines 382-408: the relay command of the next pack
bat_relay ==
    /\ At("relays")
    /\ Call(relay_cmd(ordered_pack_names[Top.bi]))
    /\ SetTop([Top EXCEPT !.at = "relay_wait",
                          !.sent = Append(Top.sent, relay_cmd(ordered_pack_names[Top.bi]))])
    /\ UNCHANGED <<bus_connected, scan_time, var_gra_b, var_gra_q, var_trm_b, var_trm_q,
                   exc, plugged, restVars>>

\* send_cmd is back, its result dropped: the next pack, or the callback ends
bat_relay_done ==
    /\ At("relay_wait")
    /\ pc = "done"
    /\ Returned
    /\ IF ret.tag \in {"SerialException", "ValueError"}
       THEN Pop /\ exc' = ret.tag
       ELSE /\ IF Top.bi < Len(ordered_pack_names)
               THEN SetTop([Top EXCEPT !.at = "relays", !.bi = Top.bi + 1])
               ELSE Pop
            /\ UNCHANGED exc
    /\ UNCHANGED <<bus_connected, scan_time, var_gra_b, var_gra_q, var_trm_b, var_trm_q,
                   plugged, restVars>>

(***************************************************************************)
(* SpecBat: callback_bat_ex from line 344 on, in a connected GUI whose     *)
(* relay checkboxes the user has set.  Line 344 follows the call of line   *)
(* 343, which raises (see raise_no_channel), so that this part of the      *)
(* callback runs only once that call returns; SpecBat starts there.        *)
(***************************************************************************)
BatInit ==
    /\ bus_connected = TRUE
    /\ scan_time \in {0} \cup ScanTimes
    /\ var_gra_b = {}
    /\ var_gra_q = {}
    /\ var_trm_b = {}
    /\ var_trm_q = {}
    /\ stack = <<[cb |-> "bat", at |-> "confirm", text |-> "", entry |-> NotANumber,
                  bi |-> 1, sent |-> <<>>]>>
    /\ exc = ""
    /\ plugged = TRUE
    /\ \E j \in 0..NumRelayPatterns : dict_bat_relay_var = RelayPattern(j)
    /\ raw = 0
    /\ recorded = <<>>
    /\ BusConstructed

NextBat ==
    \/ \E entry \in ScanEntries : bat_confirmed(entry)
    \/ bat_invalid_closed
    \/ bat_relay
    \/ bat_relay_done
    \/ bus_write(GuiReplies(cmd))
    \/ bus_sleep(0)
    \/ bus_drain
    \/ bus_decode

SpecBat == BatInit /\ [][NextBat]_vars

(***************************************************************************)
(* SpecConv: what callback_gra_ex (lines 578-580) and callback_trm_ex      *)
(* (lines 798-800) make of one reading of question '?i'.  raw is the       *)
(* integer int(element, 16) gave, any 16-bit value; recorded is the list   *)
(* the caller goes on with, empty until the conversion ran.                *)
(***************************************************************************)
\* lines 175-176
current_threshold == 32000
current_adjust == 65536

\* lines 580 and 800: one element of the list comprehension
current_reading(reading) ==
    IF reading > current_threshold THEN reading - current_adjust ELSE reading

\* line 580
gra_convert_current ==
    /\ recorded = <<>>
    /\ recorded' = <<current_reading(raw)>>
    /\ UNCHANGED <<busVars, guiVars, dict_bat_relay_var, raw>>

\* line 800
trm_convert_current ==
    /\ recorded = <<>>
    /\ recorded' = <<current_reading(raw)>>
    /\ UNCHANGED <<busVars, guiVars, dict_bat_relay_var, raw>>

ConvInit ==
    /\ GuiConstructed
    /\ plugged = TRUE
    /\ BusConstructed
    /\ dict_bat_relay_var = [b \in BusPackSet |-> [k \in 1..dict_pack_to_nums(b) |-> 1]]
    /\ raw \in 0..(current_adjust - 1)
    /\ recorded = <<>>

NextConv ==
    \/ gra_convert_current
    \/ trm_convert_current

SpecConv == ConvInit /\ [][NextConv]_vars

(***************************************************************************)
(* Claims about Bus.send_cmd and its polling callers.                      *)
(***************************************************************************)
\* c is a recognized address followed by a recognized question opcode
RecognizedCmd(c) == \E a \in bat_pack_set, q \in bat_ques_set : c = a \o q
\* ... by a recognized question opcode of two characters
TwoCharCmd(c) == \E a \in bat_pack_set, q \in bat_ques_set : Len(q) = ques_len /\ c = a \o q
\* the frame decoded is exactly what the device sent, undecodable bytes dropped
Captured == pc = "done" /\ msg = ReadAll(Wire(cmd, reply))
Decoded(l, t) == [tag |-> "tuple", parsed |-> TRUE, latency |-> l, bat_readings |-> t]
\* the first n readings of list t, then empty strings
Populated(t, n) == [k \in 1..max_bat_num |-> IF k <= n THEN t[k] ELSE <<>>]

\* C1 as claimed: when the frame is the echoed command immediately followed
\* by the 4-hex-digit latency, ten readings each followed by one separator and
\* the 3-character terminator, send_cmd returns (latency, the ten readings).
C1_RoundTripSpecLayout ==
    (Captured /\ RecognizedCmd(cmd) /\ reply.layout = "spec" /\ reply.pos = 0
        /\ reply.n = max_bat_num)
    => ret = Decoded(reply.lat, Toks(reply.toks))

\* C1 as amended: when the frame is the echoed command, one further
\* character, the 4-hex-digit latency followed by one separator, ten readings
\* each followed by one separator and the 3-character terminator, send_cmd
\* returns (latency, the ten readings in order) for every recognized address
\* and two-character recognized opcode, and None for the opcode 'q'.
C1_RoundTripCodeLayout ==
    (Captured /\ RecognizedCmd(cmd) /\ reply.layout = "code" /\ reply.pos = 0
        /\ reply.n = max_bat_num)
    => IF TwoCharCmd(cmd) THEN ret = Decoded(reply.lat, Toks(reply.toks))
                          ELSE ret = NoneRet

C1_Witness ==
    /\ Captured /\ TwoCharCmd(cmd) /\ reply.layout = "code" /\ reply.pos = 0
    /\ reply.n = max_bat_num /\ reply.lat = 65535 /\ reply.toks = 1
    /\ ret.tag = "tuple" /\ ret.latency = 65535

\* C2: an accumulated message as long as the command, whatever its characters,
\* makes send_cmd return None without parsing any field.
C2_SameLengthIsNone ==
    (pc = "done" /\ Len(msg) = Len(cmd)) => (ret.tag = "None" /\ ~ret.parsed)

C2_Witness ==
    pc = "done" /\ Len(msg) = Len(cmd) /\ msg # cmd /\ RecognizedCmd(msg) /\ ret.tag = "None"

\* C3: a message of another length than the command whose first len(cmd)
\* characters are not a recognized address followed by a recognized opcode
\* makes send_cmd return None, and nothing is raised.
C3_UnrecognizedPrefixIsNone ==
    (pc = "done" /\ Len(msg) # Len(cmd) /\ ~RecognizedCmd(PySlice(msg, 0, Len(cmd))))
    => ret = NoneRet

C3_Witness ==
    /\ pc = "done" /\ Len(msg) > Len(cmd) + hex_len /\ RecognizedCmd(cmd)
    /\ ~RecognizedCmd(PySlice(msg, 0, Len(cmd)))
    /\ PySlice(msg, Len(cmd) - ques_len, Len(cmd)) \in bat_ques_set
    /\ ret.tag = "None"

\* C4 as claimed: with one undecodable byte in an otherwise valid reply to a
\* recognized command, send_cmd returns None or a (latency, readings) tuple
\* and never raises.
C4_BadByteNeverRaises ==
    (Captured /\ TwoCharCmd(cmd) /\ reply.layout = "code" /\ reply.n = max_bat_num
        /\ reply.pos > 0 /\ reply.junk = BadByte)
    => ret.tag \in {"None", "tuple"}

\* C5: a decoded result always has exactly 10 readings, and reading k is the
\* token of slot k of the reply, for every populated slot k.
C5_TenReadingsInSlotOrder ==
    (pc = "done" /\ ret.tag = "tuple")
    => /\ Len(ret.bat_readings) = max_bat_num
       /\ (Captured /\ reply.layout = "code" /\ reply.pos = 0)
            => \A k \in 1..reply.n : ret.bat_readings[k] = Toks(reply.toks)[k]

C5_Witness ==
    /\ Captured /\ reply.layout = "code" /\ reply.pos = 0 /\ reply.n = max_bat_num
    /\ reply.toks = NumTokLists /\ ret.tag = "tuple"
    /\ ret.bat_readings[max_bat_num] = Toks(NumTokLists)[max_bat_num]

\* C6: a reply in which only the first n < 10 slots are populated (n = 3 in the
\* claim) decodes to the n tokens followed by 10 - n empty strings.
C6_UnpopulatedSlotsAreEmpty ==
    (Captured /\ TwoCharCmd(cmd) /\ reply.layout = "code" /\ reply.pos = 0
        /\ reply.n < max_bat_num)
    => ret = Decoded(reply.lat, Populated(Toks(reply.toks), reply.n))

C6_Witness ==
    /\ Captured /\ TwoCharCmd(cmd) /\ reply.layout = "code" /\ reply.pos = 0
    /\ reply.n = 3 /\ reply.toks = 1
    /\ ret.tag = "tuple" /\ ret.bat_readings[3] # <<>> /\ ret.bat_readings[4] = <<>>

\* send_cmd has returned None to the polling caller on top of the stack
NoneReturned == At("ask_wait") /\ pc = "done" /\ ret.tag = "None"

C8_FrameHoldsOnlyOwnReply ==
    pc \in {"decode", "done"} => frame_old = 0

\* the order of the steps of one send_cmd call; a write on a lost port raises
CycleOrder ==
    {<<"idle", "write">>, <<"write", "sleep">>, <<"sleep", "drain">>,
     <<"drain", "decode">>, <<"decode", "done">>, <<"done", "idle">>,
     <<"write", "done">>}

\* C9: across any sequence of GUI callbacks, send_cmd moves only along
\* write -> wait -> drain -> decode, a request is written only when none is
\* outstanding, and at most one request is outstanding.
C9_OneRequestAtATime ==
    [][/\ pc' # pc => <<pc, pc'>> \in CycleOrder
       /\ (pc = "write" /\ pc' = "sleep") => outstanding = 0
       /\ outstanding' <= 1]_vars

\* a callback dispatched from plt.pause of another has a request in its drain
C9_Witness ==
    /\ Len(stack) = 2
    /\ stack[1].at = "pause"
    /\ stack[2].at = "ask_wait"
    /\ pc = "drain"
    /\ outstanding = 1

\* C10 as claimed: every recognized question opcode is 2 characters long.
C10_OpcodesAreTwoChars ==
    \A q \in bat_ques_set : Len(q) = 2

(***************************************************************************)
(* Claims about PowerSupply and the GUI callbacks.                         *)
(***************************************************************************)
\* the command of the PowerSupply method cb in progress has been written
Transmitted(cb) ==
    /\ stack # <<>>
    /\ Top.cb = cb
    /\ Top.at = "wait"
    /\ pc \in {"sleep", "drain", "decode", "done"}

\* C11 as claimed: set_voltage never transmits a command for a voltage above
\* max_voltage and set_current never one for a current above max_current.
C11_WithinMaxLimits ==
    /\ Transmitted("set_voltage") => Top.target <= Unit(max_voltage)
    /\ Transmitted("set_current") => Top.target <= Unit(max_current)

\* the commands C12 names, in its order
RechargeOffCmds ==
    << voltage_cmd(0, supply1_v_channel), current_cmd(0, supply1_c_channel),
       voltage_cmd(0, supply2_v_channel), current_cmd(0, supply2_c_channel),
       load_cmd(0, load1_channel), load_cmd(0, load2_channel) >>

\* callback cb, called with the bus connected, takes its next step from at
StepsFrom(cb, at) == At(at) /\ Top.cb = cb /\ stack' # stack

\* C12 as claimed: callback_recharge_off, called with the bus connected, goes
\* on to transmit its commands, the first of them supply-1 voltage 0.
C12_RechargeOffCommands ==
    [][StepsFrom("recharge_off", "set_voltage")
          => (exc' = "" /\ pc' = "write" /\ cmd' = RechargeOffCmds[1])]_vars

\* the callbacks that check the connection first
GuardedCallbacks == {"pwr", "bat", "gra", "trm", "recharge_off"}

\* this step is the call of callback cb
Invokes(cb) == Len(stack') = Len(stack) + 1 /\ stack'[Len(stack')].cb = cb

\* an error box with text t is open, put up by callback cb
ErrorShown(cb, t) == stack # <<>> /\ Top = ErrorBox(cb, t)

\* C13: with bus_connected False, the call of callback_pwr_ex, callback_bat_ex,
\* callback_gra_ex, callback_trm_ex or callback_recharge_off only opens the
\* error box: nothing of the bus changes, neither scan_time nor bus_connected
\* do, nothing is raised; and while the box is open and when it is closed
\* nothing is sent either.
C13_NotConnectedOnlyError ==
    [][/\ \A cb \in GuardedCallbacks :
            (~bus_connected /\ Invokes(cb))
            => /\ stack' = Append(stack, ErrorBox(cb, NotConnected))
               /\ UNCHANGED <<busVars, scan_time, bus_connected, exc>>
       /\ \A cb \in GuardedCallbacks :
            ErrorShown(cb, NotConnected)
            => UNCHANGED <<pc, cmd, inflight, inbuf, outstanding, scan_time, bus_connected>>]_vars

\* the connection was lost, and callback_bat_ex has put up its error box
C13_Witness ==
    /\ ~bus_connected
    /\ bat_ques_set # {}
    /\ ErrorShown("bat", NotConnected)

\* the four conditions of C14, for the checkboxes of the graph (cb = "gra") or
\* of the terminal plot (cb = "trm")
AllSet(cb) ==
    /\ bus_connected
    /\ scan_time # 0
    /\ (IF cb = "gra" THEN var_gra_b ELSE var_trm_b) # {}
    /\ (IF cb = "gra" THEN var_gra_q ELSE var_trm_q) # {}

\* C14: the call of callback_gra_ex or callback_trm_ex enters the polling loop
\* (whose first step sends the scan command) exactly when the bus is
\* connected, scan_time is set, a pack is selected and a variable is selected;
\* otherwise it opens an error box, and nothing is sent by the call, while the
\* box is open or when it is closed, after which the callback is over.
C14_PollsOnlyWhenAllSet ==
    [][/\ \A cb \in {"gra", "trm"} :
            Invokes(cb)
            => /\ UNCHANGED busVars
               /\ stack'[Len(stack')].at = (IF AllSet(cb) THEN "scan" ELSE "error")
               /\ stack'[Len(stack')].at = "scan"
                    => (stack'[Len(stack')].bl # <<>> /\ stack'[Len(stack')].vl # <<>>)
       /\ (stack # <<>> /\ Top.cb \in {"gra", "trm"} /\ Top.at = "error")
            => /\ UNCHANGED busVars
               /\ stack' \in {stack, SubSeq(stack, 1, Len(stack) - 1)}]_vars

\* callback_gra_ex polls, as all four held when it was called, and
\* callback_trm_ex, called from its plt.pause with no variable selected, has
\* opened its error box instead
C14_Witness ==
    /\ Len(stack) = 2
    /\ stack[1].cb = "gra"
    /\ stack[1].at = "pause"
    /\ stack[2] = ErrorBox("trm", "Please select one or more variables to graph")
    /\ bus_connected
    /\ scan_time # 0
    /\ var_trm_b # {}

C16_TwosComplement ==
    recorded # <<>>
    => recorded[1] = (IF raw <= 32767 THEN raw ELSE raw - 65536)

\* C17 as claimed: callback_bat_ex, called with the bus connected, gets past
\* its call of callback_recharge_off (line 343) without an exception and is
\* still running afterwards, the supply commands sent, the relay commands to
\* follow.
C17_PowerOffBeforeRelays ==
    [][StepsFrom("bat", "recharge_off")
          => (exc' = "" /\ Len(stack') >= Len(stack) /\ stack'[Len(stack)].cb = "bat")]_vars

\* C19 as claimed: when callback_pwr_ex has shown the error message for an
\* invalid entry, it returns without an exception and has sent nothing.
C19_InvalidEntryReturnsNormally ==
    [][(At("invalid") /\ Top.cb = "pwr" /\ stack' # stack)
          => (exc' = "" /\ UNCHANGED busVars)]_vars

\* lines 117 and 130: input_cmd, the part of a supply command between the
\* channel and the execute string
Payload(c) ==
    SubSeq(c, Len(pwr_name) + Len(supply1_v_channel) + 1, Len(c) - Len(execute_str))

\* C20 as claimed: the payload of a command transmitted by set_voltage or
\* set_current carries no '-' sign.
C20_NoMinusOnWire ==
    (Transmitted("set_voltage") \/ Transmitted("set_current"))
    => \A i \in 1..Len(Payload(cmd)) : Payload(cmd)[i] # "-"

\* the format C18 claims for the relay command c of pack bat with cells cells:
\* address, '!rb', ten bits with one comma after the fifth, 'x'
RelayFormat(bat, cells, c) ==
    /\ Len(c) = Len(bat) + 3 + 10 + 1 + 1
    /\ SubSeq(c, 1, Len(bat)) = bat
    /\ SubSeq(c, Len(bat) + 1, Len(bat) + 3) = <<"!", "r", "b">>
    /\ c[Len(bat) + 3 + 6] = ","
    /\ c[Len(c)] = "x"
    /\ \A k \in 1..10 :
          c[Len(bat) + 3 + k + (IF k > 5 THEN 1 ELSE 0)]
             = (IF k <= cells THEN (IF dict_bat_relay_var[bat][k] = 1 THEN "1" ELSE "0")
                ELSE "0")

\* C18: every relay command callback_bat_ex has handed to send_cmd has the
\* format address + '!rb' + 10 bits with one comma after the 5th + 'x', bit k
\* being the checkbox of relay k up to the pack's cell count (8, 10, 9, 10 for
\* packs 1..4) and '0' above it; the command being sent is the last of them.
C18_RelayCommandFormat ==
    (stack # <<>> /\ Top.cb = "bat" /\ Top.at \in {"relays", "relay_wait"})
    => /\ \A i \in 1..Len(Top.sent) :
             \E n \in 1..4 :
                /\ ordered_pack_names[i] = <<"#", "b", "a", "t", PyStr(n)>>
                /\ RelayFormat(ordered_pack_names[i], <<8, 10, 9, 10>>[n], Top.sent[i])
       /\ Top.at = "relay_wait" => (Top.sent # <<>> /\ cmd = Top.sent[Len(Top.sent)])

\* all four relay commands are out, under a mixed setting of the checkboxes:
\* the one of pack 1 (8 cells) carries relays 2, 5 and 8 and two padding zeros,
\* the one of pack 4 (10 cells) relays 1, 4, 7 and 10
C18_Witness ==
    /\ At("relay_wait")
    /\ Top.cb = "bat"
    /\ pc = "done"
    /\ Len(Top.sent) = 4
    /\ Top.sent[2] = <<"#","b","a","t","1","!","r","b",
                       "0","1","0","0","1",",","0","0","1","0","0","x">>
    /\ Top.sent[1] = <<"#","b","a","t","4","!","r","b",
                       "1","0","0","1","0",",","0","1","0","0","1","x">>

====================================================================
